---- MODULE Spec2Model ----
(***************************************************************************)
(* Model of scripts/run-docjays-phases.py: the DocJays phase orchestrator. *)
(* One orchestrator process at a time runs main(); the progress file, the  *)
(* per-phase log files and the clock outlive the process.                  *)
(***************************************************************************)
EXTENDS Integers, Sequences, FiniteSets, TLC

\* ------------------------------------------------------------------ bounds
\* Number of invocations of main() in one behaviour.
MaxRuns == 2
\* Largest value of the wall clock (datetime.now()).
MaxClock == 1

\* ------------------------------------------------------- program constants
\* Highest key of DocJaysOrchestrator.PHASES.
NumPhases == 7
\* Process exit codes: sys.exit(1), argparse's parser.error, normal return.
ExitFailure == 1
ExitUsage == 2
ExitOk == 0

\* Optional[...] values: None is the empty tuple, a present value a 1-tuple.
None == <<>>
Some(x) == <<x>>

\* class PhaseStatus(Enum): member name -> value.
PhaseStatusValue(member) ==
    CASE member = "PENDING" -> "pending"
      [] member = "IN_PROGRESS" -> "in_progress"
      [] member = "COMPLETED" -> "completed"
      [] member = "FAILED" -> "failed"
      [] member = "SKIPPED" -> "skipped"

PhaseStatusMembers == {"PENDING", "IN_PROGRESS", "COMPLETED", "FAILED", "SKIPPED"}

\* PhaseStatus(value): the member with that value (ValueError otherwise).
PhaseStatusOf(value) ==
    CHOOSE m \in PhaseStatusMembers : PhaseStatusValue(m) = value

\* DocJaysOrchestrator.PHASES: the phase catalog (name and command).
PHASES ==
    [n \in 1..NumPhases |->
        [name |-> <<"phase-name", n>>, command |-> <<"docjays-phase", n>>]]

PhaseKeys == DOMAIN PHASES

\* list(self.PHASES.keys()): the keys in insertion order.
PhaseKeyList == [i \in 1..NumPhases |-> i]

\* @dataclass PhaseResult with its defaults.
PhaseResult(phase_number, phase_name, status) ==
    [phase_number |-> phase_number,
     phase_name |-> phase_name,
     status |-> status,
     start_time |-> None,
     end_time |-> None,
     duration_seconds |-> None,
     error_message |-> None,
     command_used |-> None,
     output_file |-> None]

\* datetime.isoformat() and datetime.fromisoformat().
isoformat(t) == [iso |-> t]
fromisoformat(s) == s.iso

\* ------------------------------------------------------------------ strings
\* A str is a sequence of one-character strings.
Digits == <<"0", "1", "2", "3", "4", "5", "6", "7", "8", "9">>

IsDigit(c) == \E i \in 1..Len(Digits) : Digits[i] = c
DigitVal(c) == (CHOOSE i \in 1..Len(Digits) : Digits[i] = c) - 1
DigitChar(d) == Digits[d + 1]

\* str.lower() on the letters the selections use.
LowerChar(c) ==
    CASE c = "A" -> "a"
      [] c = "L" -> "l"
      [] c = "X" -> "x"
      [] OTHER -> c

lower(s) == [i \in 1..Len(s) |-> LowerChar(s[i])]

\* sep in s
Contains(s, sep) == \E i \in 1..Len(s) : s[i] = sep

\* s.split(sep): the pieces between the separators, empty pieces included.
RECURSIVE split(_, _)
split(s, sep) ==
    IF ~Contains(s, sep) THEN <<s>>
    ELSE LET i == CHOOSE k \in 1..Len(s) :
                    s[k] = sep /\ \A j \in 1..(k - 1) : s[j] # sep
         IN <<SubSeq(s, 1, i - 1)>> \o split(SubSeq(s, i + 1, Len(s)), sep)

\* int(s) raises ValueError unless s is a non-empty run of decimal digits
\* (a sign never reaches int(): the text is split on "-" first).
IsIntLiteral(s) == Len(s) > 0 /\ \A i \in 1..Len(s) : IsDigit(s[i])

RECURSIVE int(_)
int(s) ==
    IF Len(s) = 0 THEN 0
    ELSE 10 * int(SubSeq(s, 1, Len(s) - 1)) + DigitVal(s[Len(s)])

\* f"{n}" for an int n.
RECURSIVE str(_)
str(n) ==
    IF n < 0 THEN <<"-">> \o str(0 - n)
    ELSE IF n < 10 THEN <<DigitChar(n)>>
    ELSE str(n \div 10) \o <<DigitChar(n % 10)>>

\* Mutant of range: the range always begins at the first phase.
range_FromOne(start, stop) ==
    IF stop <= 1 THEN <<>>
    ELSE [i \in 1..(stop - 1) |-> i]

\* Mutant of range: a descending range counts down instead of being empty.
range_Backwards(start, stop) ==
    IF stop <= start THEN [i \in 1..(start - stop + 1) |-> start - i + 1]
    ELSE [i \in 1..(stop - start) |-> start + i - 1]

\* list(range(start, stop)).
range(start, stop) ==
    IF stop <= start THEN <<>>
    ELSE [i \in 1..(stop - start) |-> start + i - 1]

\* max(self.PHASES.keys()).
MaxPhaseKey == CHOOSE m \in PhaseKeys : \A p \in PhaseKeys : p <= m

\* max() of a non-empty list.
max(l) == CHOOSE m \in {l[i] : i \in 1..Len(l)} : \A i \in 1..Len(l) : l[i] <= m

\* run_phases, lines 260-266: the selection text resolved into phases_to_run.
\* ok is FALSE where the code raises ValueError (int() or the 2-way unpack).
phases_to_run(phase_range) ==
    IF lower(phase_range) = <<"a", "l", "l">>
    THEN [ok |-> TRUE, plan |-> PhaseKeyList]
    ELSE IF Contains(phase_range, "-")
    THEN LET parts == split(phase_range, "-")
         IN IF Len(parts) = 2 /\ IsIntLiteral(parts[1]) /\ IsIntLiteral(parts[2])
            THEN [ok |-> TRUE, plan |-> range(int(parts[1]), int(parts[2]) + 1)]
            ELSE [ok |-> FALSE, plan |-> <<>>]
    ELSE IF IsIntLiteral(phase_range)
    THEN [ok |-> TRUE, plan |-> <<int(phase_range)>>]
    ELSE [ok |-> FALSE, plan |-> <<>>]

\* resume_from, line 373: [p for p in self.PHASES.keys() if p >= phase_number].
remaining_phases(phase_number) ==
    SelectSeq(PhaseKeyList, LAMBDA p : p >= phase_number)

\* Mutant of resume_range: the range stops one short of the last phase.
resume_range_ShortOfLast(phase_number) ==
    str(phase_number) \o <<"-">> \o str(MaxPhaseKey - 1)

\* resume_from, line 376: the text handed to run_phases.
resume_range(phase_number) ==
    str(phase_number) \o <<"-">> \o str(MaxPhaseKey)

\* ------------------------------------------------------ progress file
\* save_progress, lines 143-153: one result as its JSON object.
ToJson(r) ==
    [phase_number |-> r.phase_number,
     phase_name |-> r.phase_name,
     status |-> PhaseStatusValue(r.status),
     start_time |-> r.start_time,
     end_time |-> r.end_time,
     duration_seconds |-> r.duration_seconds,
     error_message |-> r.error_message,
     command_used |-> r.command_used,
     output_file |-> r.output_file]

\* Mutant of FromJson: the error message is not read back.
FromJson_NoError(d) ==
    [phase_number |-> d.phase_number,
     phase_name |-> d.phase_name,
     status |-> PhaseStatusOf(d.status),
     start_time |-> d.start_time,
     end_time |-> d.end_time,
     duration_seconds |-> d.duration_seconds,
     error_message |-> None,
     command_used |-> d.command_used,
     output_file |-> d.output_file]

\* load_progress, lines 124-134: one JSON object as a PhaseResult.
FromJson(d) ==
    [phase_number |-> d.phase_number,
     phase_name |-> d.phase_name,
     status |-> PhaseStatusOf(d.status),
     start_time |-> d.start_time,
     end_time |-> d.end_time,
     duration_seconds |-> d.duration_seconds,
     error_message |-> d.error_message,
     command_used |-> d.command_used,
     output_file |-> d.output_file]

\* The progress file before any run: it does not exist.
NoFile == [state |-> "absent", last_updated |-> None, results |-> <<>>]

\* save_progress, lines 140-159: the file once json.dump has returned.
Saved(rs, t) ==
    [state |-> "ok",
     last_updated |-> Some(isoformat(t)),
     results |-> [i \in 1..Len(rs) |-> ToJson(rs[i])]]

\* save_progress, line 158: open(..., 'w') has truncated the file and json.dump
\* (line 159) has not finished writing it: empty or cut-off JSON.
Torn == [state |-> "torn", last_updated |-> None, results |-> <<>>]

\* load_progress, lines 120-122: json.load accepts the file (or there is none).
Readable(file) == file.state # "torn"

\* load_progress, lines 120-136: the results read from a readable file
\* (an absent file leaves self.results empty).
Loaded(file) ==
    IF file.state = "ok"
    THEN [i \in 1..Len(file.results) |-> FromJson(file.results[i])]
    ELSE <<>>

\* run_phases, line 280: next((r for r in results if r.phase_number == n), None).
existing(rs, n) ==
    IF \E i \in 1..Len(rs) : rs[i].phase_number = n
    THEN Some(rs[CHOOSE i \in 1..Len(rs) :
                    rs[i].phase_number = n
                    /\ \A j \in 1..(i - 1) : rs[j].phase_number # n])
    ELSE None

\* list.remove(x): the list without its first element equal to x.
remove(rs, x) ==
    LET i == CHOOSE k \in 1..Len(rs) : rs[k] = x /\ \A j \in 1..(k - 1) : rs[j] # x
    IN SubSeq(rs, 1, i - 1) \o SubSeq(rs, i + 1, Len(rs))

\* ------------------------------------------------------------------- state
VARIABLES
    pc,           \* where the orchestrator process is ("idle": none started yet)
    runs,         \* invocations of main() so far
    now,          \* the wall clock
    progress_file,\* scripts/docjays-progress.json
    logs,         \* the per-phase log files under scripts/outputs
    args,         \* the parsed command line of the current invocation
    results,      \* self.results
    plan,         \* run_phases: phases_to_run
    idx,          \* run_phases: position of the for loop in phases_to_run
    result,       \* the PhaseResult being built or just returned by execute_phase
    output_file,  \* execute_phase: the log path of the phase being executed
    live,         \* phases whose subprocess this process started and has not reaped
    exit_code,    \* exit status of the last finished invocation
    reported,     \* generate_report has run in this invocation
    initial,      \* history: self.results as loaded when this invocation started
    attempted,    \* history: phases handed to execute_phase in this invocation
    spawned,      \* history: phases for which Popen was called in this invocation
    returned,     \* history: the results execute_phase returned in this invocation
    initial_logs, \* history: the log files that existed when this invocation started
    outcome,      \* history: how the last invocation ended ("running" until it has)
    report_saw    \* history: the progress file as it was when generate_report ran

vars == <<pc, runs, now, progress_file, logs, args, results, plan, idx, result,
          output_file, live, exit_code, reported, initial, attempted, spawned,
          returned, initial_logs, outcome, report_saw>>

\* ------------------------------------------------------------ inputs
\* --phase values the model tries.
PhaseArgs ==
    { <<"a", "l", "l">>,
      <<"2">>,
      <<"1", "-", "3">>,
      <<"2", "-", "3">>,
      <<"6", "-", "9">>,
      <<"0", "-", "2">>,
      <<"9">>,
      <<"3", "-", "1">>,
      <<"x">> }

\* --resume-from values the model tries.
ResumeArgs == { 0, 1, 6, 8, 12 }

\* Exit codes of a phase command.
ReturnCodes == {0, 1}

\* Seconds a phase command may take.
Elapsed == {0, 1}

\* The command lines the model tries: --phase alone, --resume-from alone,
\* both, neither; each with and without --dry-run; and one whose
\* --project-root has no .claude directory.
MainArgs ==
    { [phase |-> p, resume_from |-> None, dry_run |-> d, marker |-> TRUE] :
          p \in PhaseArgs, d \in BOOLEAN }
    \cup
    { [phase |-> None, resume_from |-> Some(k), dry_run |-> d, marker |-> TRUE] :
          k \in ResumeArgs, d \in BOOLEAN }
    \cup
    { [phase |-> <<"2">>, resume_from |-> Some(k), dry_run |-> FALSE, marker |-> TRUE] :
          k \in {0, 6} }
    \cup
    { [phase |-> None, resume_from |-> None, dry_run |-> FALSE, marker |-> TRUE],
      [phase |-> <<"2">>, resume_from |-> None, dry_run |-> FALSE, marker |-> FALSE] }

NoArgs == [phase |-> None, resume_from |-> None, dry_run |-> FALSE, marker |-> FALSE]

Init ==
    /\ pc = "idle"
    /\ runs = 0
    /\ now = 0
    /\ progress_file = NoFile
    /\ logs = {}
    /\ args = NoArgs
    /\ results = <<>>
    /\ plan = <<>>
    /\ idx = 1
    /\ result = None
    /\ output_file = None
    /\ live = {}
    /\ exit_code = None
    /\ reported = FALSE
    /\ initial = <<>>
    /\ attempted = <<>>
    /\ spawned = <<>>
    /\ returned = <<>>
    /\ initial_logs = {}
    /\ outcome = "none"
    /\ report_saw = None

\* ------------------------------------------------------------------ main
\* Python truthiness of args.phase (a str or None) and args.resume_from
\* (an int or None).
TruthyStr(v) == v # None
TruthyInt(v) == v # None /\ v[1] # 0

\* main, line 431: neither --phase nor --resume-from is usable.
IsUsageError(a) == ~TruthyStr(a.phase) /\ ~TruthyInt(a.resume_from)

\* main, lines 445-448: the text run_phases ends up parsing.
phase_range(a) ==
    IF TruthyInt(a.resume_from) THEN resume_range(a.resume_from[1]) ELSE a.phase

\* What every new process starts from: nothing of the previous process's
\* memory survives.
FreshProcess(a) ==
    /\ pc \in {"idle", "exited"}
    /\ runs < MaxRuns
    /\ runs' = runs + 1
    /\ args' = a
    /\ idx' = 1
    /\ result' = None
    /\ output_file' = None
    /\ live' = {}
    /\ reported' = FALSE
    /\ report_saw' = None
    /\ attempted' = <<>>
    /\ spawned' = <<>>
    /\ returned' = <<>>
    /\ initial_logs' = logs

\* main, lines 431-432: parser.error exits with status 2.
UsageError(a) ==
    /\ FreshProcess(a)
    /\ IsUsageError(a)
    /\ pc' = "exited"
    /\ exit_code' = Some(ExitUsage)
    /\ results' = <<>>
    /\ initial' = <<>>
    /\ plan' = <<>>
    /\ outcome' = "usage"
    /\ UNCHANGED <<now, progress_file, logs>>

\* main, lines 435-439: the .claude marker directory is missing.
MissingMarker(a) ==
    /\ FreshProcess(a)
    /\ ~IsUsageError(a)
    /\ ~a.marker
    /\ pc' = "exited"
    /\ exit_code' = Some(ExitFailure)
    /\ results' = <<>>
    /\ initial' = <<>>
    /\ plan' = <<>>
    /\ outcome' = "marker"
    /\ UNCHANGED <<now, progress_file, logs>>

\* main, lines 442-448, 454-459: the orchestrator is built (load_progress),
\* run_phases raises ValueError while resolving the selection, and the
\* handler of Exception saves the progress and exits with status 1.
FatalError(a) ==
    /\ FreshProcess(a)
    /\ ~IsUsageError(a)
    /\ a.marker
    /\ Readable(progress_file)
    /\ ~phases_to_run(phase_range(a)).ok
    /\ results' = Loaded(progress_file)
    /\ initial' = Loaded(progress_file)
    /\ progress_file' = Saved(Loaded(progress_file), now)
    /\ plan' = <<>>
    /\ pc' = "exited"
    /\ exit_code' = Some(ExitFailure)
    /\ outcome' = "fatal"
    /\ UNCHANGED <<now, logs>>

\* main, lines 442-448 and run_phases, lines 260-272: the orchestrator is
\* built (load_progress) and the selection resolved; the loop is entered.
StartRun(a) ==
    /\ FreshProcess(a)
    /\ ~IsUsageError(a)
    /\ a.marker
    /\ Readable(progress_file)
    /\ phases_to_run(phase_range(a)).ok
    /\ results' = Loaded(progress_file)
    /\ initial' = Loaded(progress_file)
    /\ plan' = phases_to_run(phase_range(a)).plan
    /\ pc' = "loop"
    /\ exit_code' = None
    /\ outcome' = "running"
    /\ UNCHANGED <<now, progress_file, logs>>

\* ------------------------------------------------------------ run_phases
\* The phase the for loop of run_phases is at.
phase_num == plan[idx]

AtPhase == pc = "loop" /\ idx <= Len(plan)

\* Mutant of AlreadyCompleted: the skip test compares with the wrong member.
AlreadyCompleted_WrongStatus ==
    /\ existing(results, phase_num) # None
    /\ existing(results, phase_num)[1].status = "SKIPPED"

\* run_phases, lines 279-281: the phase has a record and it is COMPLETED.
AlreadyCompleted ==
    /\ existing(results, phase_num) # None
    /\ existing(results, phase_num)[1].status = "COMPLETED"

\* Mutant of SkipUnknown: an unknown number ends the loop.
SkipUnknown_Aborts ==
    /\ AtPhase
    /\ phase_num \notin PhaseKeys
    /\ pc' = "report"
    /\ UNCHANGED <<idx, runs, now, progress_file, logs, args, results, plan, result,
                   output_file, live, exit_code, reported, report_saw, initial,
                   attempted, spawned, returned, initial_logs, outcome>>

\* run_phases, lines 275-277: a planned number that is no key of PHASES.
SkipUnknown ==
    /\ AtPhase
    /\ phase_num \notin PhaseKeys
    /\ idx' = idx + 1
    /\ UNCHANGED <<pc, runs, now, progress_file, logs, args, results, plan, result,
                   output_file, live, exit_code, reported, report_saw, initial, attempted,
                   spawned, returned,
                   initial_logs, outcome>>

\* run_phases, lines 279-285: skip a phase that is already completed (a
\* COMPLETED record always has its duration, so the print of line 284 works).
SkipCompleted ==
    /\ AtPhase
    /\ phase_num \in PhaseKeys
    /\ AlreadyCompleted
    /\ idx' = idx + 1
    /\ UNCHANGED <<pc, runs, now, progress_file, logs, args, results, plan, result,
                   output_file, live, exit_code, reported, report_saw, initial, attempted,
                   spawned, returned,
                   initial_logs, outcome>>

\* execute_phase, lines 167-171 and 183: the result as first built.
NewResult(n) == PhaseResult(n, PHASES[n].name, "IN_PROGRESS")

\* Mutant of DryRunResult: the status is left as first built.
DryRunResult_InProgress(n) ==
    [NewResult(n) EXCEPT !.command_used = Some(<<"/">> \o PHASES[n].command)]

\* Mutant of DryRunResult: the dry run stamps a start time and names a log.
DryRunResult_Stamped(n) ==
    [NewResult(n) EXCEPT !.status = "SKIPPED",
                         !.command_used = Some(<<"/">> \o PHASES[n].command),
                         !.start_time = Some(isoformat(0)),
                         !.output_file = Some(<<"phase", n, 0>>)]

\* execute_phase, lines 179-184: the dry-run result.
DryRunResult(n) ==
    [NewResult(n) EXCEPT !.status = "SKIPPED",
                         !.command_used = Some(<<"/">> \o PHASES[n].command)]

\* execute_phase, lines 187-193: the result when the command is about to start.
StartedResult(n, t) ==
    [NewResult(n) EXCEPT !.command_used = Some(<<"claude ", "/">> \o PHASES[n].command),
                         !.start_time = Some(isoformat(t))]

\* execute_phase, lines 187-188: phase{n}_{timestamp}.log under the output dir.
LogPath(n, t) == <<"phase", n, t>>

\* Mutant of ExitedResult: a nonzero exit code leaves no error message.
ExitedResult_NoMessage(r, path, return_code, t) ==
    LET end == isoformat(t)
        timed == [r EXCEPT !.end_time = Some(end),
                           !.duration_seconds =
                               Some(fromisoformat(end) - fromisoformat(r.start_time[1])),
                           !.output_file = Some(path)]
    IN IF return_code = 0
       THEN [timed EXCEPT !.status = "COMPLETED"]
       ELSE [timed EXCEPT !.status = "FAILED"]

\* execute_phase, lines 231-244: the result once the command has exited.
ExitedResult(r, path, return_code, t) ==
    LET end == isoformat(t)
        timed == [r EXCEPT !.end_time = Some(end),
                           !.duration_seconds =
                               Some(fromisoformat(end) - fromisoformat(r.start_time[1])),
                           !.output_file = Some(path)]
    IN IF return_code = 0
       THEN [timed EXCEPT !.status = "COMPLETED"]
       ELSE [timed EXCEPT !.status = "FAILED",
                          !.error_message =
                              Some(<<"Command exited with code", return_code>>)]

\* Mutant of ExceptionResult: the handler does not set the status.
ExceptionResult_NoStatus(r, errno, t) ==
    [r EXCEPT !.error_message = Some(<<"OSError", errno>>),
              !.end_time = Some(isoformat(t))]

\* execute_phase, lines 246-250: the result when an exception was caught
\* (errno stands for str(e)).
ExceptionResult(r, errno, t) ==
    [r EXCEPT !.status = "FAILED",
              !.error_message = Some(<<"OSError", errno>>),
              !.end_time = Some(isoformat(t))]

\* Mutant of upsert: the old record is not removed.
upsert_AppendOnly(rs, r) == Append(rs, r)

\* Mutant of upsert: a phase that has a record keeps it.
upsert_KeepsOld(rs, r) ==
    IF existing(rs, r.phase_number) # None THEN rs ELSE Append(rs, r)

\* run_phases, lines 290-293: the new result replaces the record of its phase.
upsert(rs, r) ==
    LET old == existing(rs, r.phase_number)
    IN Append(IF old # None THEN remove(rs, old[1]) ELSE rs, r)

\* Mutant of Recorded: the loop does not break on a failed phase.
Recorded_NoBreak(r, t) ==
    /\ result' = Some(r)
    /\ returned' = Append(returned, r)
    /\ results' = upsert(results, r)
    /\ progress_file' = Saved(upsert(results, r), t)
    /\ IF phase_num < max(plan)
       THEN pc' = "pause" /\ idx' = idx
       ELSE pc' = "loop" /\ idx' = idx + 1

\* Mutant of Recorded: the progress is not saved after the phase.
Recorded_NoSave(r, t) ==
    /\ result' = Some(r)
    /\ returned' = Append(returned, r)
    /\ results' = upsert(results, r)
    /\ progress_file' = progress_file
    /\ IF r.status = "FAILED"
       THEN pc' = "report" /\ idx' = idx
       ELSE IF phase_num < max(plan)
       THEN pc' = "pause" /\ idx' = idx
       ELSE pc' = "loop" /\ idx' = idx + 1

\* run_phases, lines 288-309: what follows the return of execute_phase in one
\* iteration of the loop: the result is recorded, the progress saved at time
\* t, and the loop either breaks (a failed phase), pauses, or goes on.
Recorded(r, t) ==
    /\ result' = Some(r)
    /\ returned' = Append(returned, r)
    /\ results' = upsert(results, r)
    /\ progress_file' = Saved(upsert(results, r), t)
    /\ IF r.status = "FAILED"
       THEN pc' = "report" /\ idx' = idx
       ELSE IF phase_num < max(plan)
       THEN pc' = "pause" /\ idx' = idx
       ELSE pc' = "loop" /\ idx' = idx + 1

\* run_phases, lines 288-309 with execute_phase, lines 179-184: one iteration
\* in dry-run mode.
ExecuteDryRun ==
    /\ AtPhase
    /\ phase_num \in PhaseKeys
    /\ ~AlreadyCompleted
    /\ args.dry_run
    /\ attempted' = Append(attempted, phase_num)
    /\ Recorded(DryRunResult(phase_num), now)
    /\ UNCHANGED <<runs, now, logs, args, plan, output_file, live, exit_code,
                   reported, report_saw, initial, spawned,
                   initial_logs, outcome>>

\* run_phases, lines 288-304 with execute_phase, lines 187-210, 246-252: Popen
\* raises (no child, no log file); the failure is recorded and the loop broken.
PopenFails ==
    /\ AtPhase
    /\ phase_num \in PhaseKeys
    /\ ~AlreadyCompleted
    /\ ~args.dry_run
    /\ attempted' = Append(attempted, phase_num)
    /\ spawned' = Append(spawned, phase_num)
    /\ output_file' = Some(LogPath(phase_num, now))
    /\ Recorded(ExceptionResult(StartedResult(phase_num, now), 2, now), now)
    /\ UNCHANGED <<runs, now, logs, args, plan, live, exit_code, reported, report_saw, initial,
                   initial_logs, outcome>>

\* run_phases, line 288 with execute_phase, lines 187-216: the child is
\* started and the log file opened; its output is now being streamed.
Spawn ==
    /\ AtPhase
    /\ phase_num \in PhaseKeys
    /\ ~AlreadyCompleted
    /\ ~args.dry_run
    /\ attempted' = Append(attempted, phase_num)
    /\ spawned' = Append(spawned, phase_num)
    /\ result' = Some(StartedResult(phase_num, now))
    /\ output_file' = Some(LogPath(phase_num, now))
    /\ live' = live \cup {phase_num}
    /\ logs' = logs \cup {LogPath(phase_num, now)}
    /\ pc' = "running"
    /\ UNCHANGED <<runs, now, progress_file, args, results, plan, idx, exit_code,
                   reported, report_saw, initial, returned,
                   initial_logs, outcome>>

\* execute_phase, lines 218-244 and run_phases, lines 290-309: the child
\* exits with return_code after d seconds and the result is recorded.
ChildExit(return_code, d) ==
    /\ pc = "running"
    /\ now + d <= MaxClock
    /\ now' = now + d
    /\ live' = live \ {phase_num}
    /\ Recorded(ExitedResult(result[1], output_file[1], return_code, now + d), now + d)
    /\ UNCHANGED <<runs, logs, args, plan, output_file, exit_code, reported, report_saw, initial,
                   attempted, spawned,
                   initial_logs, outcome>>

\* execute_phase, lines 213-226, 246-252 and run_phases, lines 290-304: an
\* exception while the log is written or the output read, after d seconds;
\* the child is not waited for. The failure is recorded and the loop broken.
StreamFails(d) ==
    /\ pc = "running"
    /\ now + d <= MaxClock
    /\ now' = now + d
    /\ Recorded(ExceptionResult(result[1], 5, now + d), now + d)
    /\ UNCHANGED <<runs, logs, args, plan, output_file, live, exit_code, reported, report_saw,
                   initial, attempted, spawned,
                   initial_logs, outcome>>

\* run_phases, line 309 back to line 274: time.sleep(5) returns.
PauseEnd ==
    /\ pc = "pause"
    /\ pc' = "loop"
    /\ idx' = idx + 1
    /\ UNCHANGED <<runs, now, progress_file, logs, args, results, plan, result,
                   output_file, live, exit_code, reported, report_saw, initial, attempted,
                   spawned, returned,
                   initial_logs, outcome>>

\* run_phases, line 274: the plan is exhausted.
LoopEnd ==
    /\ pc = "loop"
    /\ idx > Len(plan)
    /\ pc' = "report"
    /\ UNCHANGED <<runs, now, progress_file, logs, args, results, plan, idx, result,
                   output_file, live, exit_code, reported, report_saw, initial, attempted,
                   spawned, returned,
                   initial_logs, outcome>>

\* The status main ends with when run_phases has returned (line 448): nothing
\* follows the try block, so the interpreter exits with 0.
ReturnStatus == ExitOk

\* run_phases, lines 311-312 and main, line 448: generate_report, then
\* run_phases and main return.
Report ==
    /\ pc = "report"
    /\ reported' = TRUE
    /\ report_saw' = Some(progress_file)
    /\ exit_code' = Some(ReturnStatus)
    /\ pc' = "exited"
    /\ outcome' = "returned"
    /\ UNCHANGED <<runs, now, progress_file, logs, args, results, plan, idx, result,
                   output_file, live, initial, attempted, spawned, returned,
                   initial_logs>>

\* Where run_phases can be waiting when the operator presses Ctrl-C: between
\* two phases, while a child runs, in the pause.
Interruptible == pc \in {"loop", "running", "pause"}

\* Mutant of Interrupt: the handler reports and exits without saving.
Interrupt_NoSave ==
    /\ Interruptible
    /\ progress_file' = progress_file
    /\ reported' = TRUE
    /\ report_saw' = Some(progress_file)
    /\ exit_code' = Some(ExitFailure)
    /\ live' = {}
    /\ pc' = "exited"
    /\ outcome' = "interrupted"
    /\ UNCHANGED <<runs, now, logs, args, results, plan, idx, result, output_file,
                   initial, attempted, spawned, returned,
                   initial_logs>>

\* main, lines 449-453: KeyboardInterrupt in run_phases; the handler saves
\* the progress, reports and exits with status 1. Ctrl-C reaches the whole
\* foreground process group, the child included.
Interrupt ==
    /\ Interruptible
    /\ progress_file' = Saved(results, now)
    /\ reported' = TRUE
    /\ report_saw' = Some(Saved(results, now))
    /\ exit_code' = Some(ExitFailure)
    /\ live' = {}
    /\ pc' = "exited"
    /\ outcome' = "interrupted"
    /\ UNCHANGED <<runs, now, logs, args, results, plan, idx, result, output_file,
                   initial, attempted, spawned, returned,
                   initial_logs>>

Next ==
    \/ \E a \in MainArgs : UsageError(a)
    \/ \E a \in MainArgs : MissingMarker(a)
    \/ \E a \in MainArgs : FatalError(a)
    \/ \E a \in MainArgs : StartRun(a)
    \/ SkipUnknown
    \/ SkipCompleted
    \/ ExecuteDryRun
    \/ PopenFails
    \/ Spawn
    \/ \E rc \in ReturnCodes, d \in Elapsed : ChildExit(rc, d)
    \/ \E d \in Elapsed : StreamFails(d)
    \/ PauseEnd
    \/ LoopEnd
    \/ Report
    \/ Interrupt

Spec == Init /\ [][Next]_vars

\* ------------------------------------------------------------- crashes
\* The orchestrator process is killed (SIGKILL, power loss) where the run
\* waits: no handler runs, nothing is written, no status is returned.
Crash ==
    /\ Interruptible
    /\ pc' = "exited"
    /\ exit_code' = None
    /\ outcome' = "crashed"
    /\ UNCHANGED <<runs, now, progress_file, logs, args, results, plan, idx, result,
                   output_file, live, reported, report_saw, initial, attempted,
                   spawned, returned, initial_logs>>

\* execute_phase, lines 218-244 and run_phases, lines 290-296 with
\* save_progress, lines 158-159: the child exits, the result is recorded in
\* self.results, save_progress opens the progress file for writing and the
\* process is killed before json.dump has written it out.
CrashInSave(return_code, d) ==
    /\ pc = "running"
    /\ now + d <= MaxClock
    /\ now' = now + d
    /\ live' = live \ {phase_num}
    /\ result' = Some(ExitedResult(result[1], output_file[1], return_code, now + d))
    /\ returned' = Append(returned, result'[1])
    /\ results' = upsert(results, result'[1])
    /\ progress_file' = Torn
    /\ pc' = "exited"
    /\ exit_code' = None
    /\ outcome' = "crashed"
    /\ UNCHANGED <<runs, logs, args, plan, idx, output_file, reported, report_saw,
                   initial, attempted, spawned, initial_logs>>

\* main, line 442 with load_progress, lines 120-122: json.load raises on a
\* torn progress file while the orchestrator is built, outside the try block
\* of main; the interpreter prints the traceback and exits with status 1.
LoadFails(a) ==
    /\ FreshProcess(a)
    /\ ~IsUsageError(a)
    /\ a.marker
    /\ ~Readable(progress_file)
    /\ results' = <<>>
    /\ initial' = <<>>
    /\ plan' = <<>>
    /\ pc' = "exited"
    /\ exit_code' = Some(ExitFailure)
    /\ outcome' = "unreadable"
    /\ UNCHANGED <<now, progress_file, logs>>

NextCrash ==
    \/ Next
    \/ Crash
    \/ \E rc \in ReturnCodes, d \in Elapsed : CrashInSave(rc, d)
    \/ \E a \in MainArgs : LoadFails(a)

\* The runs of Spec, with the process liable to be killed.
SpecCrash == Init /\ [][NextCrash]_vars

\* --------------------------------------------- save_progress, load_progress
\* The longest result collection the round trip is tried on.
MaxStore == 2

\* The results the round trip is tried on: any phase, any member of
\* PhaseStatus, and the optional fields all absent, all present, or only the
\* ones set before the command starts.
StoreRecords ==
    LET blank(n, s) == PhaseResult(n, PHASES[n].name, s)
        begun(n, s) == [blank(n, s) EXCEPT
                            !.command_used = Some(<<"claude ", "/">> \o PHASES[n].command),
                            !.start_time = Some(isoformat(0))]
        full(n, s) == [begun(n, s) EXCEPT
                            !.end_time = Some(isoformat(1)),
                            !.duration_seconds = Some(1),
                            !.error_message = Some(<<"Command exited with code", 1>>),
                            !.output_file = Some(LogPath(n, 0))]
    IN UNION { {blank(n, s), begun(n, s), full(n, s)} :
                   n \in {1, NumPhases}, s \in PhaseStatusMembers }

\* The collections self.results is drawn from: any order, repeats included.
StoreInputs == UNION { [1..n -> StoreRecords] : n \in 0..MaxStore }

\* An orchestrator holding a collection R in self.results, nothing on disk.
InitRoundTrip ==
    /\ pc = "built"
    /\ runs = 0
    /\ now = 0
    /\ progress_file = NoFile
    /\ logs = {}
    /\ args = NoArgs
    /\ results \in StoreInputs
    /\ plan = <<>>
    /\ idx = 1
    /\ result = None
    /\ output_file = None
    /\ live = {}
    /\ exit_code = None
    /\ reported = FALSE
    /\ initial = results
    /\ attempted = <<>>
    /\ spawned = <<>>
    /\ returned = <<>>
    /\ initial_logs = {}
    /\ outcome = "none"
    /\ report_saw = None

\* save_progress, lines 138-159, called at time t.
SaveStore(t) ==
    /\ pc \in {"built", "loaded"}
    /\ now <= t
    /\ now' = t
    /\ progress_file' = Saved(results, t)
    /\ pc' = "saved"
    /\ UNCHANGED <<runs, logs, args, results, plan, idx, result, output_file, live,
                   exit_code, reported, report_saw, initial, attempted, spawned,
                   returned, initial_logs, outcome>>

\* __init__ and load_progress, lines 110-136: a new orchestrator reads the file.
LoadStore ==
    /\ pc = "saved"
    /\ Readable(progress_file)
    /\ results' = Loaded(progress_file)
    /\ pc' = "loaded"
    /\ UNCHANGED <<runs, now, progress_file, logs, args, plan, idx, result,
                   output_file, live, exit_code, reported, report_saw, initial,
                   attempted, spawned, returned, initial_logs, outcome>>

NextRoundTrip ==
    \/ \E t \in 0..MaxClock : SaveStore(t)
    \/ LoadStore

\* save_progress and load_progress applied to every collection of StoreInputs.
SpecRoundTrip == InitRoundTrip /\ [][NextRoundTrip]_vars

\* ------------------------------------------------------------------ claims
\* The phase numbers in a list, and the record a store holds for a phase.
Numbers(l) == {l[i] : i \in 1..Len(l)}
RecordOf(rs, n) == existing(rs, n)
Persisted == Loaded(progress_file)
Started == outcome \in {"running", "returned", "interrupted"}
Completed0(n) ==
    RecordOf(initial, n) # None /\ RecordOf(initial, n)[1].status = "COMPLETED"

\* C1: a phase whose record is completed when a run starts is never handed to
\* execute_phase nor to Popen in that run, its record in self.results never
\* changes, and when the run has ended the progress file still holds exactly
\* that record for it.
C1_CompletedIsFrozen ==
    \A i \in 1..Len(initial) :
        initial[i].status = "COMPLETED" =>
            LET P == initial[i].phase_number
            IN /\ P \notin Numbers(spawned)
               /\ P \notin Numbers(attempted)
               /\ RecordOf(results, P) = Some(initial[i])
               /\ pc = "exited" => RecordOf(Persisted, P) = Some(initial[i])

\* C1 witness: a run whose plan names a completed phase has gone past it,
\* executed another phase and ended.
C1_Witness ==
    /\ pc = "exited"
    /\ ~args.dry_run
    /\ \E m \in 1..Len(plan) :
           /\ m < idx
           /\ plan[m] \in PhaseKeys
           /\ Completed0(plan[m])
    /\ attempted # <<>>

\* C2: once execute_phase has returned a failed result in a run, that result
\* is in the progress file, it is the last result of the run, the loop stays
\* at the failed phase, and no phase later in the plan is handed to
\* execute_phase or Popen or gets a new record, in memory or in the file.
C2_StopOnFailure ==
    \A j \in 1..Len(returned) :
        returned[j].status = "FAILED" =>
            /\ j = Len(returned)
            /\ Len(attempted) = j
            /\ idx \in 1..Len(plan)
            /\ plan[idx] = returned[j].phase_number
            /\ RecordOf(Persisted, plan[idx]) = Some(returned[j])
            /\ \A m \in (idx + 1)..Len(plan) :
                   /\ plan[m] \notin Numbers(attempted)
                   /\ plan[m] \notin Numbers(spawned)
                   /\ RecordOf(results, plan[m]) = RecordOf(initial, plan[m])
                   /\ RecordOf(Persisted, plan[m]) = RecordOf(initial, plan[m])

\* C2 witness: a run has ended after a failed phase that was followed in the
\* plan by a catalog phase not yet completed.
C2_Witness ==
    /\ pc = "exited"
    /\ returned # <<>>
    /\ returned[Len(returned)].status = "FAILED"
    /\ idx < Len(plan)
    /\ plan[idx + 1] \in PhaseKeys
    /\ ~Completed0(plan[idx + 1])

\* C3: at most one child is live; whenever the loop is about to start a phase,
\* runs one or pauses, the progress file holds exactly self.results; and every
\* result execute_phase has returned in the run is in the progress file from
\* the step that returned it on.
C3_PersistBeforeNext ==
    /\ Cardinality(live) <= 1
    /\ pc \in {"loop", "running", "pause", "report"} => Persisted = results
    /\ Started =>
           \A j \in 1..Len(returned) :
               RecordOf(Persisted, returned[j].phase_number) = Some(returned[j])

\* C3 witness: a second phase of a run is running, after a first one returned.
C3_Witness ==
    /\ pc = "running"
    /\ live = {phase_num}
    /\ Len(returned) >= 1
    /\ results # <<>>

\* C4: in dry-run mode nothing is handed to Popen, no child is live, no log
\* file is added to those that existed when the run started, and every result
\* execute_phase returns has no start time, no end time and no log path.
C4_DryRunSpawnsNothing ==
    (Started /\ args.dry_run) =>
        /\ spawned = <<>>
        /\ live = {}
        /\ logs = initial_logs
        /\ \A j \in 1..Len(returned) :
               /\ returned[j].start_time = None
               /\ returned[j].end_time = None
               /\ returned[j].output_file = None

\* C4 witness: a dry run over a store that already has records has returned
\* two results.
C4_Witness ==
    /\ args.dry_run
    /\ Len(returned) >= 2
    /\ initial # <<>>

\* The record the store should hold for a planned catalog phase after a dry
\* run that went through its whole plan.
Skipped(rs, n) == RecordOf(rs, n) # None /\ RecordOf(rs, n)[1].status = "SKIPPED"

\* C5 as stated: when a dry run has gone through its plan and ended, every
\* planned phase of the catalog has a record with status skipped.
C5_AllPlannedSkipped ==
    (pc = "exited" /\ outcome = "returned" /\ args.dry_run) =>
        \A m \in 1..Len(plan) :
            plan[m] \in PhaseKeys =>
                Skipped(results, plan[m]) /\ Skipped(Persisted, plan[m])

\* C5 amended: when a dry run has gone through its plan and ended, every
\* planned phase of the catalog that was not completed when the run started
\* has a record with status skipped, in memory and in the file; a phase that
\* was completed keeps its completed record.
C5_PlannedSkippedUnlessCompleted ==
    (pc = "exited" /\ outcome = "returned" /\ args.dry_run) =>
        \A m \in 1..Len(plan) :
            plan[m] \in PhaseKeys =>
                IF Completed0(plan[m])
                THEN /\ RecordOf(results, plan[m]) = RecordOf(initial, plan[m])
                     /\ RecordOf(Persisted, plan[m]) = RecordOf(initial, plan[m])
                ELSE Skipped(results, plan[m]) /\ Skipped(Persisted, plan[m])

\* C5 witness: a dry run has ended whose plan held a completed phase and a
\* phase that was not completed.
C5_Witness ==
    /\ pc = "exited"
    /\ outcome = "returned"
    /\ args.dry_run
    /\ \E m \in 1..Len(plan) : plan[m] \in PhaseKeys /\ Completed0(plan[m])
    /\ \E m \in 1..Len(plan) : plan[m] \in PhaseKeys /\ ~Completed0(plan[m])

\* C6 as stated: a run that passed validation and was not interrupted exits
\* with a nonzero status if a phase it executed failed, and with 0 if its plan
\* was gone through without a failed phase.
C6_ExitCodeTellsFailure ==
    (pc = "exited" /\ outcome = "returned") =>
        IF \E j \in 1..Len(returned) : returned[j].status = "FAILED"
        THEN exit_code # Some(0)
        ELSE exit_code = Some(0)

\* Two records of a list have the same phase number.
HasDuplicate(rs) ==
    \E i, j \in 1..Len(rs) : i < j /\ rs[i].phase_number = rs[j].phase_number

\* C7: starting from no progress file, self.results and the progress file
\* never hold two records with the same phase number.
C7_OneRecordPerPhase ==
    ~HasDuplicate(results) /\ ~HasDuplicate(progress_file.results)

\* C7 witness: a phase that had a record when the run started has been
\* executed again and its new result recorded.
C7_Witness ==
    /\ returned # <<>>
    /\ RecordOf(initial, returned[Len(returned)].phase_number) # None
    /\ RecordOf(results, returned[Len(returned)].phase_number)
           = Some(returned[Len(returned)])

\* C8: every record in the progress file has the status completed, failed or
\* skipped, never in_progress (nor pending), whatever wrote the file: the
\* loop, the interrupt handler or the handler of Exception.
C8_NoInProgressPersisted ==
    \A k \in 1..Len(progress_file.results) :
        progress_file.results[k].status \in {"completed", "failed", "skipped"}

\* C8 witness: the interrupt handler has saved the progress while the result
\* of the phase in flight was still in_progress.
C8_Witness ==
    /\ pc = "exited"
    /\ outcome = "interrupted"
    /\ result # None
    /\ result[1].status = "IN_PROGRESS"
    /\ progress_file.results # <<>>

\* The planned phases the loop has dealt with so far, in plan order: those
\* before the current position, and the current one once it is being run.
Reached ==
    IF pc \in {"running", "pause"} \/ (pc \in {"report", "exited"} /\ idx <= Len(plan))
    THEN SubSeq(plan, 1, idx)
    ELSE SubSeq(plan, 1, idx - 1)

\* C9: --resume-from K builds the plan of the selection "K-7"; the catalog
\* phases of that plan are the catalog keys >= K in ascending order; and the
\* phases handed to execute_phase are, in that order, those of them the loop
\* has reached that were not completed when the run started.
C9_ResumeIsRangeToLast ==
    (Started /\ TruthyInt(args.resume_from)) =>
        LET K == args.resume_from[1]
            text == str(K) \o <<"-", "7">>
        IN /\ phases_to_run(text).ok
           /\ plan = phases_to_run(text).plan
           /\ SelectSeq(plan, LAMBDA p : p \in PhaseKeys)
                  = SelectSeq(PhaseKeyList, LAMBDA p : p >= K)
           /\ (pc # "exited" \/ outcome = "returned") =>
                  attempted = SelectSeq(Reached,
                                        LAMBDA p : p \in PhaseKeys /\ ~Completed0(p))

\* C9 witness: a resumed run over a store with a completed phase in its plan
\* has gone through the whole plan.
C9_Witness ==
    /\ pc = "exited"
    /\ outcome = "returned"
    /\ TruthyInt(args.resume_from)
    /\ idx > Len(plan)
    /\ Len(attempted) >= 1
    /\ \E m \in 1..Len(plan) : plan[m] \in PhaseKeys /\ Completed0(plan[m])

\* The selection is a well-formed range "N-M".
IsRangeSelection(text) ==
    /\ Contains(text, "-")
    /\ Len(split(text, "-")) = 2
    /\ IsIntLiteral(split(text, "-")[1])
    /\ IsIntLiteral(split(text, "-")[2])

\* C10: a non-dry run over "N-M" (N a catalog phase) that started from an
\* empty store and ended after a failed phase F has run exactly N..F in
\* order, all before F completed and F failed, and the progress file then
\* holds exactly those F-N+1 results, in that order.
C10_RangeStopsAtFirstFailure ==
    ( /\ pc = "exited"
      /\ outcome = "returned"
      /\ ~args.dry_run
      /\ ~TruthyInt(args.resume_from)
      /\ IsRangeSelection(args.phase)
      /\ int(split(args.phase, "-")[1]) \in PhaseKeys
      /\ initial = <<>>
      /\ \E j \in 1..Len(returned) : returned[j].status = "FAILED" ) =>
        LET N == int(split(args.phase, "-")[1])
            M == int(split(args.phase, "-")[2])
            F == returned[Len(returned)].phase_number
        IN /\ N <= F /\ F <= M
           /\ attempted = [i \in 1..(F - N + 1) |-> N + i - 1]
           /\ Len(returned) = F - N + 1
           /\ \A j \in 1..Len(returned) :
                  /\ returned[j].phase_number = N + j - 1
                  /\ returned[j].status = IF j < Len(returned) THEN "COMPLETED"
                                          ELSE "FAILED"
           /\ Len(progress_file.results) = F - N + 1
           /\ Persisted = returned

\* C10 witness: the run over "1-3" from an empty store in which phase 1
\* completed and the command of phase 2 exited nonzero has ended.
C10_Witness ==
    /\ pc = "exited"
    /\ outcome = "returned"
    /\ args.phase = <<"1", "-", "3">>
    /\ ~TruthyInt(args.resume_from)
    /\ initial = <<>>
    /\ Len(returned) = 2
    /\ returned[2].status = "FAILED"
    /\ returned[2].error_message = Some(<<"Command exited with code", 1>>)
    /\ Len(progress_file.results) = 2

\* C11: a process that got past the checks of main (arguments usable, marker
\* directory present) has called generate_report by the time it has exited,
\* however it ended: plan exhausted, break on a failed phase, Ctrl-C, or an
\* exception raised out of run_phases.
C11_ReportAlwaysProduced ==
    (pc = "exited" /\ outcome \in {"returned", "interrupted", "fatal"}) => reported

\* The phase whose child was running when the process was interrupted, if any:
\* execute_phase was entered for it and has not returned.
InFlight ==
    IF Len(attempted) = Len(returned) + 1
    THEN Some(attempted[Len(attempted)])
    ELSE None

\* C12: once a run has been interrupted (while a child ran, in the pause, or
\* between two phases) the process has exited with a nonzero status, no child
\* is left running and nothing beyond the loop's position was launched, the
\* progress file was written by the handler and holds self.results, the report
\* was generated with that file already written, and the record the store had
\* for the phase in flight is the one it had when the run started.
C12_InterruptPersistsAndReports ==
    outcome = "interrupted" =>
        /\ pc = "exited"
        /\ exit_code # None /\ exit_code[1] # 0
        /\ live = {}
        /\ Len(attempted) \in {Len(returned), Len(returned) + 1}
        /\ \A j \in 1..Len(attempted) :
               \E m \in 1..Len(plan) : m <= idx /\ plan[m] = attempted[j]
        /\ progress_file = Saved(results, now)
        /\ Persisted = results
        /\ reported
        /\ report_saw = Some(progress_file)
        /\ InFlight # None =>
               /\ RecordOf(results, InFlight[1]) = RecordOf(initial, InFlight[1])
               /\ RecordOf(Persisted, InFlight[1]) = RecordOf(initial, InFlight[1])

\* C12 witness: a run was interrupted while the child of a phase that already
\* had a record (not completed) was running.
C12_Witness ==
    /\ outcome = "interrupted"
    /\ InFlight # None
    /\ RecordOf(initial, InFlight[1]) # None
    /\ returned # <<>>

\* C13: every result execute_phase has returned has a duration exactly when it
\* has both a start and an end time, the duration is then end minus start,
\* and a result of a real (non-dry) execution that has a start time has an
\* end time and a duration too.
C13_DurationIffBothTimestamps ==
    \A j \in 1..Len(returned) :
        LET r == returned[j]
            timed == r.start_time # None /\ r.end_time # None
        IN /\ (r.duration_seconds # None) <=> timed
           /\ r.duration_seconds # None =>
                  r.duration_seconds[1] =
                      fromisoformat(r.end_time[1]) - fromisoformat(r.start_time[1])
           /\ (~args.dry_run /\ r.start_time # None) =>
                  (r.end_time # None /\ r.duration_seconds # None)

\* C14: a planned number that is no key of PHASES is never handed to
\* execute_phase or Popen and never gets a record, in memory or in the file;
\* and the run goes on past it: when run_phases has returned, the report was
\* generated and every planned phase of the catalog was handed to
\* execute_phase unless it was completed when the run started or it comes
\* after the phase whose failure broke the loop.
C14_UnknownIdSkippedRunContinues ==
    Started =>
        /\ \A m \in 1..Len(plan) :
               plan[m] \notin PhaseKeys =>
                   /\ plan[m] \notin Numbers(attempted)
                   /\ plan[m] \notin Numbers(spawned)
                   /\ RecordOf(results, plan[m]) = None
                   /\ RecordOf(Persisted, plan[m]) = None
        /\ (pc = "exited" /\ outcome = "returned") =>
               /\ reported
               /\ \A m \in 1..Len(plan) :
                      plan[m] \in PhaseKeys =>
                          \/ plan[m] \in Numbers(attempted)
                          \/ Completed0(plan[m])
                          \/ /\ returned # <<>>
                             /\ returned[Len(returned)].status = "FAILED"
                             /\ idx < m

\* C14 witness: a run whose plan starts with an unknown number has gone past
\* it, executed two later phases of the catalog and reported.
C14_Witness ==
    /\ pc = "exited"
    /\ outcome = "returned"
    /\ plan # <<>>
    /\ plan[1] \notin PhaseKeys
    /\ Len(attempted) >= 2
    /\ reported

\* C15: whatever happened to the orchestrator process, the progress file is
\* never left half-written (a reader can always load it), and after a crash
\* it holds the result of every phase that had finished before the one in
\* flight.
C15_CrashLeavesLoadableStore ==
    /\ Readable(progress_file)
    /\ outcome = "crashed" =>
           \A j \in 1..(Len(returned) - 1) :
               RecordOf(Persisted, returned[j].phase_number) = Some(returned[j])

\* C16: for every collection R of results, the collection load_progress reads
\* from the file save_progress wrote for R equals R, record by record and in
\* the same order, whenever the file was written; the file differs between
\* two saves of R in its last_updated stamp only.
C16_RoundTrip ==
    /\ pc \in {"saved", "loaded"} =>
           /\ Loaded(progress_file) = initial
           /\ progress_file = [Saved(initial, 0) EXCEPT
                                   !.last_updated = progress_file.last_updated]
    /\ pc = "loaded" => results = initial

\* C16 witness: a collection of two records out of numeric order, the first
\* failed with every optional field present, the second pending with none,
\* has been saved and loaded.
C16_Witness ==
    /\ pc = "loaded"
    /\ Len(results) = 2
    /\ results[1].phase_number > results[2].phase_number
    /\ results[1].status = "FAILED"
    /\ results[1].error_message # None
    /\ results[1].duration_seconds # None
    /\ results[2].status = "PENDING"
    /\ results[2].start_time = None

\* The phase numbers of a store, in list order.
Ids(rs) == [i \in 1..Len(rs) |-> rs[i].phase_number]

\* C17: recording a result for a phase that already has a record puts the new
\* record where the old one was: throughout a run the phases that had a
\* record when the run started are in self.results in the order they had
\* then, and the phases recorded for the first time come after them.
C17_UpsertKeepsPosition ==
    Started =>
        /\ Len(results) >= Len(initial)
        /\ SubSeq(Ids(results), 1, Len(initial)) = Ids(initial)

\* A list of numbers is strictly ascending.
Ascending(l) == \A i, j \in 1..Len(l) : i < j => l[i] < l[j]

\* C18: in a run, whatever the selection, the phases handed to execute_phase
\* and those handed to Popen are in strictly ascending order; and when the
\* text run_phases parses is a range "N-M" with N > M, the plan is empty and
\* nothing is executed or recorded.
C18_ExecutedInAscendingOrder ==
    Started =>
        /\ Ascending(attempted)
        /\ Ascending(spawned)
        /\ Ascending(Ids(returned))
        /\ LET text == phase_range(args)
           IN ( /\ IsRangeSelection(text)
                /\ int(split(text, "-")[1]) > int(split(text, "-")[2]) ) =>
                  /\ plan = <<>>
                  /\ attempted = <<>>
                  /\ spawned = <<>>
                  /\ results = initial

\* C18 witness: a run has executed two phases that are not neighbours (the one
\* between them was skipped as completed) and ended.
C18_Witness ==
    /\ pc = "exited"
    /\ outcome = "returned"
    /\ Len(spawned) >= 2
    /\ spawned[2] > spawned[1] + 1
    /\ Len(returned) = Len(spawned)

\* A record has an error message exactly when its status is FAILED.
ErrorIffFailed(r) == (r.error_message # None) <=> (r.status = "FAILED")

\* C19: starting with no progress file, every record of self.results, every
\* record read back from the progress file and every result execute_phase
\* has returned has an error message if and only if its status is failed.
C19_ErrorMessageIffFailed ==
    /\ \A i \in 1..Len(results) : ErrorIffFailed(results[i])
    /\ \A i \in 1..Len(Persisted) : ErrorIffFailed(Persisted[i])
    /\ \A i \in 1..Len(returned) : ErrorIffFailed(returned[i])

\* C19 witness: the saved store holds a record left by a dry run, a record of
\* a failed phase with its message, and a record of a completed phase.
C19_Witness ==
    /\ pc = "exited"
    /\ Persisted = results
    /\ \E i \in 1..Len(results) :
           results[i].status = "SKIPPED" /\ results[i].error_message = None
    /\ \E i \in 1..Len(results) :
           results[i].status = "FAILED" /\ results[i].error_message # None
    /\ \E i \in 1..Len(results) :
           results[i].status = "COMPLETED" /\ results[i].error_message = None

\* A record as a dry run leaves it: skipped, with no start or end time, no
\* duration, no error message and no log path.
BareSkipped(rec) ==
    /\ rec # None
    /\ rec[1].status = "SKIPPED"
    /\ rec[1].start_time = None
    /\ rec[1].end_time = None
    /\ rec[1].duration_seconds = None
    /\ rec[1].error_message = None
    /\ rec[1].output_file = None

\* C20: in a dry run, every phase handed to execute_phase has from then on a
\* bare skipped record in self.results and in the progress file, whatever
\* record (none, failed, skipped) it had before; and when the dry run has gone
\* through its plan, that is every planned phase of the catalog that was not
\* completed when the run started.
C20_DryRunOverwritesRecords ==
    (Started /\ args.dry_run) =>
        /\ \A j \in 1..Len(attempted) :
               /\ ~Completed0(attempted[j])
               /\ BareSkipped(RecordOf(results, attempted[j]))
               /\ BareSkipped(RecordOf(Persisted, attempted[j]))
        /\ (pc = "exited" /\ outcome = "returned") =>
               \A m \in 1..Len(plan) :
                   (plan[m] \in PhaseKeys /\ ~Completed0(plan[m])) =>
                       plan[m] \in Numbers(attempted)

\* C20 witness: a dry run has ended whose plan held a phase recorded as failed,
\* with an error message and a log path, when the run started; the file now
\* has a skipped record for it.
C20_Witness ==
    /\ pc = "exited"
    /\ outcome = "returned"
    /\ args.dry_run
    /\ \E n \in Numbers(attempted) :
           /\ RecordOf(initial, n) # None
           /\ RecordOf(initial, n)[1].status = "FAILED"
           /\ RecordOf(initial, n)[1].error_message # None
           /\ RecordOf(initial, n)[1].output_file # None
           /\ RecordOf(Persisted, n)[1].status = "SKIPPED"
====
